---- MODULE Spec2Model ----
(***************************************************************************)
(* Model of load_excel_files (combine_excel_sheets.py): the loop over the  *)
(* numbered workbooks, the units-row removal, the provenance columns and   *)
(* the final pd.concat.                                                    *)
(*                                                                         *)
(* Text is a sequence of one-character strings, so that str.strip,         *)
(* str.lower and the "03d" format are computed, not assumed.  A DataFrame  *)
(* is [columns |-> sequence of column names, rows |-> sequence of rows],   *)
(* a row being a function from the column names to cell values.           *)
(***************************************************************************)
EXTENDS Integers, Sequences, FiniteSets, TLC

VARIABLES prefix, start, end, disk, i, pc, xl, handles, dataframes,
          combined_df, candidates

vars == <<prefix, start, end, disk, i, pc, xl, handles, dataframes,
          combined_df, candidates>>

\* ---------------------------------------------------------------- bounds
\* end - start is at most MaxSpan
MaxSpan == 2
\* a worksheet of the normalisation universe has at most MaxRows data rows
MaxRows == 2

\* ------------------------------------------------------- generic helpers
Range(s) == {s[k] : k \in 1..Len(s)}

RECURSIVE Flatten(_)
\* concatenation of a sequence of sequences
Flatten(ss) == IF ss = <<>> THEN <<>> ELSE Head(ss) \o Flatten(Tail(ss))

\* ------------------------------------------------------------ cell values
Text(s)   == [t |-> "str", s |-> s,    n |-> 0]
Number(n) == [t |-> "num", s |-> <<>>, n |-> n]
NaN       == [t |-> "nan", s |-> <<>>, n |-> 0]

DigitChars == <<"0", "1", "2", "3", "4", "5", "6", "7", "8", "9">>

RECURSIVE Digits(_)
\* decimal digits of a natural number, most significant first
Digits(n) == IF n < 10 THEN <<DigitChars[n + 1]>>
             ELSE Digits(n \div 10) \o <<DigitChars[(n % 10) + 1]>>

RECURSIVE ZeroFill(_, _)
\* left-pad with "0" up to width w
ZeroFill(s, w) == IF Len(s) >= w THEN s ELSE ZeroFill(<<"0">> \o s, w)

\* zero fill to width 2 instead of 3
Format02d(n) == IF n < 0 THEN <<"-">> \o ZeroFill(Digits(0 - n), 1)
                ELSE ZeroFill(Digits(n), 2)

\* the format spec 03d of f"{i:03d}": sign-aware zero fill to a minimum
\* total width of 3
Format03d(n) == IF n < 0 THEN <<"-">> \o ZeroFill(Digits(0 - n), 2)
                ELSE ZeroFill(Digits(n), 3)

Extension == <<".", "x", "l", "s", "x">>

\* file_name = f"{prefix}{i:03d}.xlsx"
FileName(n) == prefix \o Format03d(n) \o Extension

\* str(value) of a cell
Str(v) == CASE v.t = "str" -> v.s
            [] v.t = "num" -> IF v.n < 0 THEN <<"-">> \o Digits(0 - v.n)
                              ELSE Digits(v.n)
            [] OTHER       -> <<"n", "a", "n">>

Whitespace == {" ", "\t", "\n", "\r"}

RECURSIVE LStrip(_)
LStrip(s) == IF s # <<>> /\ Head(s) \in Whitespace THEN LStrip(Tail(s)) ELSE s

RECURSIVE RStrip(_)
RStrip(s) == IF s # <<>> /\ s[Len(s)] \in Whitespace
             THEN RStrip(SubSeq(s, 1, Len(s) - 1)) ELSE s

\* only leading whitespace is removed (lstrip instead of strip)
StripLeft(s) == LStrip(s)

\* str.strip()
Strip(s) == RStrip(LStrip(s))

UpperCase == <<"A", "B", "C", "D", "E", "F", "G", "H", "I", "J", "K", "L", "M",
               "N", "O", "P", "Q", "R", "S", "T", "U", "V", "W", "X", "Y", "Z">>
LowerCase == <<"a", "b", "c", "d", "e", "f", "g", "h", "i", "j", "k", "l", "m",
               "n", "o", "p", "q", "r", "s", "t", "u", "v", "w", "x", "y", "z">>

LowerChar(c) == IF \E k \in 1..26 : UpperCase[k] = c
                THEN LowerCase[CHOOSE k \in 1..26 : UpperCase[k] = c]
                ELSE c

\* str.lower()
Lower(s) == [k \in 1..Len(s) |-> LowerChar(s[k])]

\* ------------------------------------------------------------- DataFrames
\* pd.DataFrame()
EmptyFrame == [columns |-> <<>>, rows |-> <<>>]

ColumnSet(df) == Range(df.columns)

\* df.empty: either axis has length 0
IsEmpty(df) == df.rows = <<>> \/ df.columns = <<>>

\* an existing column is left as it is
SetColumnIfAbsent(df, col, value) ==
    [columns |-> IF col \in ColumnSet(df) THEN df.columns
                 ELSE Append(df.columns, col),
     rows    |-> [k \in 1..Len(df.rows) |->
                    [c \in ColumnSet(df) \cup {col} |->
                        IF c \in ColumnSet(df) THEN df.rows[k][c] ELSE value]]]

\* df[col] = value: an existing column is overwritten in place, a new one
\* is appended after the others
SetColumn(df, col, value) ==
    [columns |-> IF col \in ColumnSet(df) THEN df.columns
                 ELSE Append(df.columns, col),
     rows    |-> [k \in 1..Len(df.rows) |->
                    [c \in ColumnSet(df) \cup {col} |->
                        IF c = col THEN value ELSE df.rows[k][c]]]]

\* the first row goes whenever its first cell reads "deg", CA column or not
DropUnitsRowAnyFirstCell(df) ==
    IF ~IsEmpty(df)
    THEN LET first_val == Lower(Strip(Str(df.rows[1][df.columns[1]])))
         IN  IF Len(first_val) >= 3 /\ SubSeq(first_val, 1, 3) = <<"d", "e", "g">>
             THEN [columns |-> df.columns, rows |-> Tail(df.rows)]
             ELSE df
    ELSE df

\* the units-row check and df.iloc[1:].reset_index(drop=True)
DropUnitsRow(df) ==
    IF ~IsEmpty(df) /\ "CA" \in ColumnSet(df)
    THEN LET first_val == Lower(Strip(Str(df.rows[1]["CA"])))
         IN  IF first_val = <<"d", "e", "g">>
             THEN [columns |-> df.columns, rows |-> Tail(df.rows)]
             ELSE df
    ELSE df

\* one pass of the per-sheet loop body: units row, then the two metadata
\* columns
ProcessSheet(file_name, sheet) ==
    SetColumn(SetColumn(DropUnitsRow(sheet.table), "source_file", Text(file_name)),
              "sheet_name", Text(sheet.name))

RECURSIVE UnionColumns(_, _)
\* column index of pd.concat(sort=False): union in order of first appearance
UnionColumns(dfs, acc) ==
    IF dfs = <<>> THEN acc
    ELSE LET new == SelectSeq(Head(dfs).columns, LAMBDA c : c \notin Range(acc))
         IN  UnionColumns(Tail(dfs), acc \o new)

Reindex(df, cols) ==
    [k \in 1..Len(df.rows) |->
        [c \in Range(cols) |-> IF c \in ColumnSet(df) THEN df.rows[k][c] ELSE NaN]]

\* the frames are taken last first
ConcatReversed(dfs) ==
    LET cols == UnionColumns(dfs, <<>>)
    IN  [columns |-> cols,
         rows    |-> Flatten([k \in 1..Len(dfs) |->
                                Reindex(dfs[Len(dfs) + 1 - k], cols)])]

\* join="inner": only the columns every frame has
ConcatInner(dfs) ==
    LET cols == SelectSeq(UnionColumns(dfs, <<>>),
                          LAMBDA c : \A k \in 1..Len(dfs) : c \in ColumnSet(dfs[k]))
    IN  [columns |-> cols,
         rows    |-> Flatten([k \in 1..Len(dfs) |-> Reindex(dfs[k], cols)])]

\* pd.concat(dataframes, ignore_index=True)
Concat(dfs) ==
    LET cols == UnionColumns(dfs, <<>>)
    IN  [columns |-> cols,
         rows    |-> Flatten([k \in 1..Len(dfs) |-> Reindex(dfs[k], cols)])]

\* ------------------------------------------------------ files on the disk
\* a file that pd.ExcelFile cannot open (missing, corrupt, not a workbook)
Unopenable == [kind |-> "unopenable", sheets |-> <<>>]

Workbook(sheets) == [kind |-> "workbook", sheets |-> sheets]

Sheet(name, table) == [name |-> name, ok |-> TRUE, table |-> table]

\* a worksheet on which the parser raises
BadSheet(name) == [name |-> name, ok |-> FALSE, table |-> EmptyFrame]

CanOpen(f) == f.kind = "workbook"

\* xl.parse(sheet_name=None) reads every sheet in one call and succeeds only
\* if all of them parse
CanParse(f) == \A k \in 1..Len(f.sheets) : f.sheets[k].ok

\* the index skipped as known corrupted
Excluded == {15}

\* handle sets the collector may leave: everything still referenced stays
Survivors(hs, live) == {s \in SUBSET hs : (hs \cap live) \subseteq s}

\* --------------------------------------------------- the inputs of a run
\* worksheet names, in the order a two-sheet workbook declares them (not
\* alphabetical)
FirstName  == <<"S", "2">>
SecondName == <<"S", "1">>

Deg      == Text(<<"D", "e", "g", " ">>)
PlainDeg == Text(<<"d", "e", "g">>)
Degs     == Text(<<"d", "e", "g", "s">>)

\* the column the units marker of a generated table is written to: CA when
\* the table has one, else its first column
MarkerColumn(cols) == IF "CA" \in Range(cols) THEN "CA" ELSE cols[1]

\* a table whose k-th row holds vals[k] in the marker column and the row
\* number in every other column
TableOf(cols, vals) ==
    [columns |-> cols,
     rows    |-> [k \in 1..Len(vals) |->
                    [c \in Range(cols) |->
                        IF c = MarkerColumn(cols) THEN vals[k] ELSE Number(k)]]]

SeqsUpTo(S, n) == UNION {[1..m -> S] : m \in 0..n}

\* worksheets of the normalisation universe
NormValues == {Deg, Degs, Number(2)}
NormColumns == {<<"CA">>, <<"P", "CA">>, <<"P">>, <<"P", "Q">>}
NormTables == {EmptyFrame} \cup
              {TableOf(cols, vals) : cols \in NormColumns,
                                     vals \in SeqsUpTo(NormValues, MaxRows)}
NormFiles == {Unopenable, Workbook(<<BadSheet(FirstName)>>)} \cup
             {Workbook(<<Sheet(FirstName, t)>>) : t \in NormTables}

\* worksheets of the aggregation universe: overlapping column sets, a units
\* row, a later "deg", and a sheet that already has the metadata columns
MainTables == {TableOf(<<"P", "CA">>, <<Deg, PlainDeg, Number(4)>>),
               TableOf(<<"CA", "Q">>, <<Number(5), Deg>>),
               TableOf(<<"sheet_name", "source_file">>, <<Degs>>)}
MainSheets(name) == {BadSheet(name)} \cup {Sheet(name, t) : t \in MainTables}
MainFiles == {Unopenable} \cup
             {Workbook(<<s>>) : s \in MainSheets(FirstName)} \cup
             {Workbook(<<s, t>>) : s \in MainSheets(FirstName),
                                   t \in MainSheets(SecondName)}

\* files of the enumeration universe
EnumFiles == {Unopenable, Workbook(<<BadSheet(FirstName)>>),
              Workbook(<<Sheet(FirstName, TableOf(<<"CA">>, <<Number(1)>>))>>)}

\* the file at an excluded index is never read
Disks(lo, hi, files) ==
    {d \in [lo..hi -> files] : \A n \in (lo..hi) \cap Excluded : d[n] = Unopenable}

InitWith(prefixes, starts, spans, files) ==
    /\ prefix \in prefixes
    /\ start \in starts
    /\ end \in {start + k : k \in spans}
    /\ disk \in Disks(start, end, files)
    /\ i = start
    /\ pc = "loop"
    /\ xl = {}
    /\ handles = {}
    /\ dataframes = <<>>
    /\ combined_df = EmptyFrame
    /\ candidates = <<>>

Traces == <<"T", "r", "a", "c", "e", "s", "-">>

\* aggregation: several workbooks with several sheets around index 15
Init == InitWith({Traces}, {13, 14}, 0..MaxSpan, MainFiles)

\* enumeration: ranges around 0, 15 and 1000, two prefixes
InitEnum == InitWith({Traces, <<>>}, {-1, 0, 13, 15, 998, 999}, 0..MaxSpan, EnumFiles)

\* normalisation: one or two single-sheet workbooks of every shape
InitNorm == InitWith({Traces}, {14}, {1, 2}, NormFiles)

\* ----------------------------------------------------------------- actions
\* i == 15: continue
SkipCorrupted ==
    /\ pc = "loop" /\ i <= end
    /\ i \in Excluded
    /\ i' = i + 1
    /\ UNCHANGED <<prefix, start, end, disk, pc, xl, handles, dataframes,
                   combined_df, candidates>>

\* pd.ExcelFile raises and the loop is left (break instead of continue)
OpenErrorBreaks ==
    /\ pc = "loop" /\ i <= end
    /\ i \notin Excluded
    /\ ~CanOpen(disk[i])
    /\ candidates' = Append(candidates, [index |-> i, file_name |-> FileName(i)])
    /\ i' = end + 1
    /\ UNCHANGED <<prefix, start, end, disk, pc, xl, handles, dataframes,
                   combined_df>>

\* pd.ExcelFile raises: continue
OpenError ==
    /\ pc = "loop" /\ i <= end
    /\ i \notin Excluded
    /\ ~CanOpen(disk[i])
    /\ candidates' = Append(candidates, [index |-> i, file_name |-> FileName(i)])
    /\ i' = i + 1
    /\ UNCHANGED <<prefix, start, end, disk, pc, xl, handles, dataframes,
                   combined_df>>

\* the sheets that parse are processed although one of them does not
ParseErrorKeepsSiblings ==
    /\ pc = "loop" /\ i <= end
    /\ i \notin Excluded
    /\ CanOpen(disk[i]) /\ ~CanParse(disk[i])
    /\ candidates' = Append(candidates, [index |-> i, file_name |-> FileName(i)])
    /\ xl' = {i}
    /\ handles' \in Survivors(handles \cup {i}, {i})
    /\ dataframes' = dataframes \o
           LET good == SelectSeq(disk[i].sheets, LAMBDA sh : sh.ok)
           IN  [k \in 1..Len(good) |-> ProcessSheet(FileName(i), good[k])]
    /\ i' = i + 1
    /\ UNCHANGED <<prefix, start, end, disk, pc, combined_df>>

\* pd.ExcelFile succeeds, xl.parse raises: continue.  xl is rebound to the new
\* ExcelFile, which nothing closes.
ParseError ==
    /\ pc = "loop" /\ i <= end
    /\ i \notin Excluded
    /\ CanOpen(disk[i]) /\ ~CanParse(disk[i])
    /\ candidates' = Append(candidates, [index |-> i, file_name |-> FileName(i)])
    /\ xl' = {i}
    /\ handles' \in Survivors(handles \cup {i}, {i})
    /\ i' = i + 1
    /\ UNCHANGED <<prefix, start, end, disk, pc, dataframes, combined_df>>

\* pd.ExcelFile and xl.parse succeed: every sheet is processed in the
\* workbook's order and appended to dataframes
ProcessSheets ==
    /\ pc = "loop" /\ i <= end
    /\ i \notin Excluded
    /\ CanOpen(disk[i]) /\ CanParse(disk[i])
    /\ candidates' = Append(candidates, [index |-> i, file_name |-> FileName(i)])
    /\ xl' = {i}
    /\ handles' \in Survivors(handles \cup {i}, {i})
    /\ dataframes' = dataframes \o
           [k \in 1..Len(disk[i].sheets) |-> ProcessSheet(FileName(i), disk[i].sheets[k])]
    /\ i' = i + 1
    /\ UNCHANGED <<prefix, start, end, disk, pc, combined_df>>

\* after the loop: concat or the empty frame, then return; the local xl goes
\* out of scope
Combine ==
    /\ pc = "loop" /\ i > end
    /\ combined_df' = IF dataframes # <<>> THEN Concat(dataframes) ELSE EmptyFrame
    /\ pc' = "done"
    /\ xl' = {}
    /\ handles' \in Survivors(handles, {})
    /\ UNCHANGED <<prefix, start, end, disk, i, dataframes, candidates>>

Next == SkipCorrupted \/ OpenError \/ ParseError \/ ProcessSheets \/ Combine

Spec == Init /\ [][Next]_vars

SpecEnum == InitEnum /\ [][Next]_vars

SpecNorm == InitNorm /\ [][Next]_vars

\* ------------------------------------------ what a run should have read
\* the file at index n was opened and all its sheets were parsed
Loaded(n) == n \notin Excluded /\ CanOpen(disk[n]) /\ CanParse(disk[n])

RECURSIVE SheetsRead(_, _)
\* the worksheets of the loaded files lo..hi: file index ascending, then the
\* workbook's own order
SheetsRead(lo, hi) ==
    IF lo > hi THEN <<>>
    ELSE (IF Loaded(lo)
          THEN [k \in 1..Len(disk[lo].sheets) |->
                    [index |-> lo, sheet |-> disk[lo].sheets[k]]]
          ELSE <<>>) \o SheetsRead(lo + 1, hi)

\* the worksheets read by the iterations completed so far
ReadSoFar == SheetsRead(start, i - 1)

\* the Normalized Table of a worksheet that was read
Normalized(r) == ProcessSheet(FileName(r.index), r.sheet)

\* every row the combined table should hold, in order, with the worksheet it
\* came from
RowsOf(r) ==
    \* a set with one element binds the table once
    CHOOSE rs \in {[m \in 1..Len(t.rows) |-> [from |-> r, row |-> t.rows[m]]] :
                      t \in {Normalized(r)}} : TRUE

ExpectedRowsOf(read) == Flatten([k \in 1..Len(read) |-> RowsOf(read[k])])

ExpectedRows == ExpectedRowsOf(ReadSoFar)

\* a row of a wider table agrees with a row on the latter's columns in cols
RowMatches(wide, row, cols) ==
    \A c \in cols : c \in DOMAIN wide /\ wide[c] = row[c]

\* the rows of df tagged with this source file
RowsFrom(df, file_name) ==
    IF "source_file" \in ColumnSet(df)
    THEN SelectSeq(df.rows, LAMBDA r : r["source_file"] = Text(file_name))
    ELSE <<>>

\* the rows of df tagged with this source file and worksheet
RowsFromSheet(df, file_name, sheet_name) ==
    IF "sheet_name" \in ColumnSet(df)
    THEN SelectSeq(RowsFrom(df, file_name), LAMBDA r : r["sheet_name"] = Text(sheet_name))
    ELSE <<>>

\* the rows one file contributes, as a function of that file alone
Contribution(n) ==
    IF CanOpen(disk[n]) /\ CanParse(disk[n])
    THEN Flatten([k \in 1..Len(disk[n].sheets) |->
                    ProcessSheet(FileName(n), disk[n].sheets[k]).rows])
    ELSE <<>>

SameRows(wides, rows) ==
    /\ Len(wides) = Len(rows)
    /\ \A k \in 1..Len(rows) : RowMatches(wides[k], rows[k], DOMAIN rows[k])

\* the indices the loop does not skip
CandidateIndices == (start..end) \ Excluded

\* text that equals "deg" once surrounding whitespace is removed and case is
\* ignored, stated on the characters
IsDegText(s) ==
    \E a \in 0..Len(s) :
        /\ a + 3 <= Len(s)
        /\ \A k \in 1..a : s[k] \in Whitespace
        /\ s[a + 1] \in {"d", "D"}
        /\ s[a + 2] \in {"e", "E"}
        /\ s[a + 3] \in {"g", "G"}
        /\ \A k \in (a + 4)..Len(s) : s[k] \in Whitespace

IsDegCell(v) == v.t = "str" /\ IsDegText(v.s)

Provenance == {"source_file", "sheet_name"}

\* ------------------------------------------------------------------ C1
DigitValue(c) == CHOOSE d \in 0..9 : DigitChars[d + 1] = c

RECURSIVE Decode(_)
\* the natural number written by a sequence of digit characters
Decode(s) == IF s = <<>> THEN 0
             ELSE 10 * Decode(SubSeq(s, 1, Len(s) - 1)) + DigitValue(s[Len(s)])

\* body is n written in decimal, zero-padded to three characters: it reads
\* back as n, is at least three characters wide, and is wider only when n
\* needs it
IsZeroPadded3(body, n) ==
    LET neg  == body # <<>> /\ Head(body) = "-"
        digs == IF neg THEN Tail(body) ELSE body
    IN  /\ digs # <<>>
        /\ \A k \in 1..Len(digs) : \E d \in 0..9 : DigitChars[d + 1] = digs[k]
        /\ (IF neg THEN 0 - Decode(digs) ELSE Decode(digs)) = n
        /\ neg <=> (n < 0)
        /\ Len(body) >= 3
        /\ (Len(body) > 3 => digs[1] # "0")

IsCandidateName(name, n) ==
    /\ Len(name) >= Len(prefix) + 5
    /\ SubSeq(name, 1, Len(prefix)) = prefix
    /\ SubSeq(name, Len(name) - 4, Len(name)) = Extension
    /\ IsZeroPadded3(SubSeq(name, Len(prefix) + 1, Len(name) - 5), n)

C2_OpenFailureIsolated ==
    pc = "done" =>
        \A n \in CandidateIndices :
            /\ ~CanOpen(disk[n]) => RowsFrom(combined_df, FileName(n)) = <<>>
            /\ SameRows(RowsFrom(combined_df, FileName(n)), Contribution(n))

C2_Witness ==
    /\ pc = "done"
    /\ \E n, m \in CandidateIndices :
          /\ n < m
          /\ ~CanOpen(disk[n])
          /\ Contribution(m) # <<>>
          /\ Len(RowsFrom(combined_df, FileName(m))) = Len(Contribution(m))

HasUnitsRow(raw) ==
    /\ ~IsEmpty(raw)
    /\ "CA" \in ColumnSet(raw)
    /\ IsDegCell(raw.rows[1]["CA"])

\* C4: a worksheet with a units row loses exactly its first row: one row
\* fewer, the others in their order, whatever the later rows hold in CA
C4_UnitsRowDropped ==
    \A k \in 1..Len(ReadSoFar) :
        LET raw == ReadSoFar[k].sheet.table
        IN  HasUnitsRow(raw) =>
                /\ k <= Len(dataframes)
                /\ Len(dataframes[k].rows) = Len(raw.rows) - 1
                /\ \A m \in 1..(Len(raw.rows) - 1) :
                      RowMatches(dataframes[k].rows[m], raw.rows[m + 1],
                                 ColumnSet(raw) \ Provenance)

C4_Witness ==
    \E k \in 1..Len(ReadSoFar) :
        LET raw == ReadSoFar[k].sheet.table
        IN  /\ HasUnitsRow(raw)
            /\ Len(raw.rows) >= 2
            /\ IsDegCell(raw.rows[2]["CA"])
            /\ k <= Len(dataframes)
            /\ Len(dataframes[k].rows) = Len(raw.rows) - 1

\* ------------------------------------------------------------------ C5
\* C5 as stated: without a CA column, a "deg" in the first cell of the first
\* row makes that row go
C5_FallbackDropsRow ==
    \A k \in 1..Len(ReadSoFar) :
        LET raw == ReadSoFar[k].sheet.table
        IN  (/\ ~IsEmpty(raw)
             /\ "CA" \notin ColumnSet(raw)
             /\ IsDegCell(raw.rows[1][raw.columns[1]]))
            => (k <= Len(dataframes) /\ Len(dataframes[k].rows) = Len(raw.rows) - 1)

\* ------------------------------------------------------------------ C6
\* C6: every row of the combined table carries the name of the file and of
\* the worksheet it was read from, also when the worksheet had columns of
\* these names
C6_Provenance ==
    pc = "done" => \A expected \in {ExpectedRows} :
        /\ Len(combined_df.rows) = Len(expected)
        /\ \A k \in 1..Len(expected) :
              LET from == expected[k].from
              IN  /\ Provenance \subseteq DOMAIN combined_df.rows[k]
                  /\ combined_df.rows[k]["source_file"].t = "str"
                  /\ combined_df.rows[k]["source_file"].s # <<>>
                  /\ IsCandidateName(combined_df.rows[k]["source_file"].s, from.index)
                  /\ combined_df.rows[k]["sheet_name"] = Text(from.sheet.name)

C6_Witness ==
    /\ pc = "done"
    /\ \E expected \in {ExpectedRows} : \E k \in 1..Len(expected) :
          /\ Provenance \subseteq ColumnSet(expected[k].from.sheet.table)
          /\ k <= Len(combined_df.rows)
          /\ combined_df.rows[k]["sheet_name"] = Text(expected[k].from.sheet.name)

\* ------------------------------------------------------------------ C7
RECURSIVE SumRows(_)
SumRows(dfs) == IF dfs = <<>> THEN 0 ELSE Len(Head(dfs).rows) + SumRows(Tail(dfs))

\* C7: the combined table holds the rows of the Normalized Tables in the
\* order file index, worksheet order, row order, each once
C7_ConcatenationOrder ==
    pc = "done" => \A read \in {ReadSoFar} : \A expected \in {ExpectedRowsOf(read)} :
        /\ Len(combined_df.rows) = SumRows([k \in 1..Len(read) |-> Normalized(read[k])])
        /\ Len(combined_df.rows) = Len(expected)
        /\ \A k \in 1..Len(expected) :
              RowMatches(combined_df.rows[k], expected[k].row, DOMAIN expected[k].row)

C7_Witness ==
    /\ pc = "done"
    /\ \E n, m \in CandidateIndices :
          /\ n < m
          /\ Loaded(n) /\ Loaded(m)
          /\ Len(disk[n].sheets) = 2
          /\ \A k \in 1..2 : Len(ProcessSheet(FileName(n), disk[n].sheets[k]).rows) = 2
          /\ Contribution(m) # <<>>
    /\ Len(combined_df.rows) = Len(ExpectedRows)

\* ------------------------------------------------------------------ C8
\* C8: the columns of the combined table are the union of the columns of the
\* Normalized Tables; a row is null in the columns its table lacks and keeps
\* its cells elsewhere
C8_ColumnUnion ==
    (pc = "done" /\ dataframes # <<>>) =>
        \A read \in {ReadSoFar} : \A expected \in {ExpectedRowsOf(read)} :
        \A columns \in {ColumnSet(combined_df)} :
        /\ columns = UNION {ColumnSet(Normalized(read[k])) : k \in 1..Len(read)}
        /\ Len(combined_df.rows) = Len(expected)
        /\ \A k \in 1..Len(expected) :
              /\ DOMAIN combined_df.rows[k] = columns
              /\ \A c \in columns :
                    combined_df.rows[k][c] =
                        IF c \in DOMAIN expected[k].row
                        THEN expected[k].row[c] ELSE NaN

C8_Witness ==
    /\ pc = "done"
    /\ \E expected \in {ExpectedRows} : \E j, k \in 1..Len(expected) :
          /\ "P" \in DOMAIN expected[j].row /\ "Q" \notin DOMAIN expected[j].row
          /\ "Q" \in DOMAIN expected[k].row /\ "P" \notin DOMAIN expected[k].row
          /\ Len(combined_df.rows) = Len(expected)
          /\ combined_df.rows[j]["Q"] = NaN
          /\ combined_df.rows[k]["P"] = NaN
          /\ combined_df.rows[j]["CA"] # NaN

\* ------------------------------------------------------------------ C9
\* C9 as stated: no workbook handle is open when the next candidate is
\* considered nor when the function has returned
C9_HandlesReleased ==
    /\ (pc = "loop" /\ i <= end) => handles = {}
    /\ pc = "done" => handles = {}

\* ------------------------------------------------------------------ C10
\* the worksheet gives the units-row policy nothing to act on
NoUnitsCase(raw) ==
    \/ IsEmpty(raw)
    \/ ("CA" \notin ColumnSet(raw) /\ ~IsDegCell(raw.rows[1][raw.columns[1]]))

\* C10: a worksheet that is empty, has no columns, or has neither a CA column
\* nor "deg" in its first cell is normalised without failure: same number of
\* rows, and both provenance columns present
C10_NoRemoval ==
    /\ Len(dataframes) = Len(ReadSoFar)
    /\ \A k \in 1..Len(ReadSoFar) :
          LET raw == ReadSoFar[k].sheet.table
          IN  NoUnitsCase(raw) =>
                  /\ Len(dataframes[k].rows) = Len(raw.rows)
                  /\ Provenance \subseteq ColumnSet(dataframes[k])
                  /\ \A m \in 1..Len(raw.rows) :
                        /\ RowMatches(dataframes[k].rows[m], raw.rows[m],
                                      ColumnSet(raw) \ Provenance)
                        /\ dataframes[k].rows[m]["sheet_name"] =
                              Text(ReadSoFar[k].sheet.name)

C10_Witness ==
    /\ \E k \in 1..Len(ReadSoFar) :
          LET raw == ReadSoFar[k].sheet.table
          IN  /\ "CA" \notin ColumnSet(raw)
              /\ Len(raw.rows) = 2
              /\ NoUnitsCase(raw)
              /\ k <= Len(dataframes)
              /\ Len(dataframes[k].rows) = 2
    /\ \E k \in 1..Len(ReadSoFar) :
          /\ ReadSoFar[k].sheet.table = EmptyFrame
          /\ k <= Len(dataframes)
          /\ dataframes[k].columns = <<"source_file", "sheet_name">>

TypeOK ==
    /\ pc \in {"loop", "done"}
    /\ i \in start..(end + 1)
    /\ xl \subseteq handles
    /\ handles \subseteq start..end

====
